---- MODULE Spec2Model ----
(***************************************************************************)
(* Model of gmail-alerting-app/main.py: analyze_emails() lists the recent  *)
(* messages, fetches each one, skips whitelisted senders, scans keywords   *)
(* and attachment filenames, and calls log_alert() for every hit, which    *)
(* writes the alert to the logger (alertas.txt) and then posts it to the   *)
(* webhook when WEBHOOK_URL is set.                                        *)
(*                                                                         *)
(* Strings are sequences of one-character strings, so that str.lower(),    *)
(* `in` and str.endswith() are computed character by character.            *)
(***************************************************************************)
EXTENDS Integers, Sequences, FiniteSets, TLC

(* Upper bound on the number of messages the listing returns; it stands    *)
(* for GMAIL_MAX_RESULTS (main.py:43), whose shipped default is 10.         *)
MaxResults == 2

---------------------------------------------------------------------------
(* str.lower() on the characters the model uses *)
LowerChar(c) ==
    CASE c = "A" -> "a"
      [] c = "D" -> "d"
      [] c = "I" -> "i"
      [] c = "P" -> "p"
      [] c = "S" -> "s"
      [] c = "T" -> "t"
      [] c = "W" -> "w"
      [] c = "X" -> "x"
      [] c = "Z" -> "z"
      [] OTHER -> c

Lower(s) == [j \in 1..Len(s) |-> LowerChar(s[j])]

(* Python `sub in s` on strings *)
Contains(s, sub) ==
    \E j \in 0..(Len(s) - Len(sub)) : SubSeq(s, j + 1, j + Len(sub)) = sub

(* Python s.endswith(suf) *)
EndsWith(s, suf) ==
    /\ Len(suf) <= Len(s)
    /\ SubSeq(s, Len(s) - Len(suf) + 1, Len(s)) = suf

(* any(pred(x) for x in xs) over a list of strings *)
Range(xs) == {xs[j] : j \in DOMAIN xs}

---------------------------------------------------------------------------
(* Sentinels and the two literal reason prefixes (one token each) *)
SinAsunto == <<"S", "i", "n", " ", "A", "s", "u", "n", "t", "o">>
Desconocido == <<"D", "e", "s", "c", "o", "n", "o", "c", "i", "d", "o">>
PalabraDetectada == <<"Palabra detectada: ">>
AdjuntoPeligroso == <<"Adjunto peligroso: ">>

(* Rule sets the module constants KEYWORDS, WHITELIST_DOMAINS and          *)
(* DANGEROUS_EXTENSIONS can be adjusted to (main.py:19-20, 48-51).         *)
(*  1: the shipped shape, everything lower case                            *)
(*  2: a keyword and an extension written with an upper-case letter        *)
(*  3: no keywords, and two extensions that are suffixes of one another    *)
RuleSets ==
    { [keywords   |-> << <<"p", "w">>, <<"i", "d">> >>,
       whitelist  |-> << <<"@", "o", "k">>, <<"@", "a", "m">> >>,
       extensions |-> << <<".", "z">>, <<".", "x">> >>],
      [keywords   |-> << <<"P", "w">> >>,
       whitelist  |-> << >>,
       extensions |-> << <<".", "Z">> >>],
      [keywords   |-> << >>,
       whitelist  |-> << <<"@", "o", "k">> >>,
       extensions |-> << <<".", "z">>, <<".", "t", ".", "z">> >>] }

(* os.getenv('WEBHOOK_URL'): None when unset, else the string *)
Unset == "<None>"
WebhookUrls == {Unset, "", "https://hooks.example/T0"}

(* Python truthiness of WEBHOOK_URL in `if WEBHOOK_URL:` *)
Truthy(v) == v # Unset /\ v # ""

(* Outcomes of requests.post(..., timeout=5): a response with a status     *)
(* code, or an exception (connection error, timeout).                      *)
NoResponse == [kind |-> "none", status |-> 0]
Responses ==
    { [kind |-> "http", status |-> 200],
      [kind |-> "http", status |-> 204],
      [kind |-> "http", status |-> 500],
      [kind |-> "exception", status |-> 0] }

---------------------------------------------------------------------------
(* The mailbox: what messages().get(id=...) returns for each id.  A dict   *)
(* is a record whose domain is the set of keys present.                    *)
MessageIds == {"m1", "m2", "m3", "m4", "m5", "m6"}

Mailbox(id) ==
    CASE id = "m1" ->
           (* trusted sender, with a keyword and a dangerous attachment *)
           [payload |->
              [headers |-> << [name |-> "From",
                               value |-> <<"<", "a", "@", "o", "k", ">">>],
                              [name |-> "Subject", value |-> <<"P", "w">>] >>,
               parts |-> << [filename |-> <<"b", ".", "z">>] >>],
            snippet |-> <<"i", "d">>]
      [] id = "m2" ->
           (* keyword in the subject and in the snippet, one attachment *)
           [payload |->
              [headers |-> << [name |-> "Date", value |-> <<"1">>],
                              [name |-> "Subject",
                               value |-> <<"P", "W", " ", "x">>],
                              [name |-> "From",
                               value |-> <<"b", "@", "e", "v">>] >>,
               parts |-> << [filename |-> <<"r", ".", "x">>] >>],
            snippet |-> <<"a", " ", "P", "w">>]
      [] id = "m3" ->
           (* no snippet; a part without filename; upper-case extension *)
           [payload |->
              [headers |-> << [name |-> "From",
                               value |-> <<"c", "@", "e", "v">>],
                              [name |-> "Subject", value |-> <<"i", "d">>] >>,
               parts |-> << [filename |-> <<"a", ".", "t", ".", "Z">>],
                            [mimeType |-> <<"t">>],
                            [filename |-> <<"n", ".", "o">>] >>]]
      [] id = "m4" ->
           (* no payload *)
           [snippet |-> <<"p", "w">>]
      [] id = "m5" ->
           (* no Subject or From header, no parts *)
           [payload |-> [headers |-> << >>],
            snippet |-> <<"I", "d">>]
      [] OTHER ->
           (* payload without headers *)
           [payload |-> [parts |-> << >>],
            snippet |-> << >>]

(* messages().list(maxResults=...) results: distinct ids, provider order *)
Listings ==
    { ms \in UNION { [1..n -> {[id |-> m] : m \in MessageIds}]
                       : n \in 0..MaxResults } :
        \A a, b \in DOMAIN ms : a # b => ms[a] # ms[b] }

---------------------------------------------------------------------------
(* The logger is modelled at its call sites: alertas holds the WARNING     *)
(* records log_alert hands to it, errors counts the ERROR records.  Which  *)
(* records the handlers then write to alertas.txt depends on LOG_LEVEL     *)
(* (main.py:56-67) and is not modelled; nor is the detection timestamp     *)
(* that log_alert adds to the webhook text (main.py:122).                  *)
VARIABLES
    KEYWORDS, WHITELIST_DOMAINS, DANGEROUS_EXTENSIONS, WEBHOOK_URL,
    pc,         \* position in analyze_emails / log_alert
    listing,    \* outcome of the initial list call: "pending", "ok", "failed"
    messages,   \* results.get('messages', [])
    i,          \* 1-based position of `msg` in `messages`
    msg_data,   \* detail of the current message
    subject, sender, snippet,
    k,          \* position of `word` in KEYWORDS
    parts,      \* msg_data['payload'].get('parts', [])
    p,          \* position of `part` in parts
    alert,      \* arguments of the log_alert call in progress
    ret,        \* where log_alert returns to
    response,   \* outcome of requests.post in the call in progress
    alertas,    \* WARNING records handed to the logger, in order
    posted,     \* payloads handed to requests.post, in order
    errors      \* number of ERROR records handed to the logger

vars == <<KEYWORDS, WHITELIST_DOMAINS, DANGEROUS_EXTENSIONS, WEBHOOK_URL,
          pc, listing, messages, i, msg_data, subject, sender, snippet,
          k, parts, p, alert, ret, response, alertas, posted, errors>>

config == <<KEYWORDS, WHITELIST_DOMAINS, DANGEROUS_EXTENSIONS, WEBHOOK_URL>>
locals == <<msg_data, subject, sender, snippet, k, parts, p>>
sinks  == <<alertas, posted, errors>>

EmptyDict == [x \in {} |-> x]
NoCall == [subject |-> << >>, sender |-> << >>, reason |-> << >>,
           id |-> "", phase |-> 0, pos |-> 0]

Init ==
    /\ \E r \in RuleSets :
         /\ KEYWORDS = r.keywords
         /\ WHITELIST_DOMAINS = r.whitelist
         /\ DANGEROUS_EXTENSIONS = r.extensions
    /\ WEBHOOK_URL \in WebhookUrls
    /\ pc = "start"
    /\ listing = "pending"
    /\ messages = << >>
    /\ i = 0
    /\ msg_data = EmptyDict
    /\ subject = << >>
    /\ sender = << >>
    /\ snippet = << >>
    /\ k = 0
    /\ parts = << >>
    /\ p = 0
    /\ alert = NoCall
    /\ ret = "none"
    /\ response = NoResponse
    /\ alertas = << >>
    /\ posted = << >>
    /\ errors = 0

---------------------------------------------------------------------------
(* dict.get(key, default) *)
Get(d, key, default) == IF key \in DOMAIN d THEN d[key] ELSE default

(* next((h['value'] for h in headers if h['name'] == name), default) *)
HeaderValue(headers, name, default) ==
    IF \E j \in DOMAIN headers : headers[j].name = name
    THEN headers[CHOOSE j \in DOMAIN headers :
                   /\ headers[j].name = name
                   /\ \A j2 \in DOMAIN headers :
                        headers[j2].name = name => j <= j2].value
    ELSE default

(* msg_data['payload']['headers'] evaluates without a KeyError *)
HasHeaders(d) ==
    IF "payload" \in DOMAIN d THEN "headers" \in DOMAIN d.payload ELSE FALSE

(* for msg in messages: the element taken at iteration n *)
MsgAtReversed(ms, n) == ms[Len(ms) + 1 - n]
MsgAt(ms, n) == ms[n]

(* any(domain in sender for domain in WHITELIST_DOMAINS) *)
WhitelistedBySuffix(s) == \E d \in Range(WHITELIST_DOMAINS) : EndsWith(s, d)
Whitelisted(s) == \E d \in Range(WHITELIST_DOMAINS) : Contains(s, d)

(* word in snippet or word in subject.lower() *)
KeywordMatches(word) ==
    Contains(snippet, word) \/ Contains(Lower(subject), word)

(* any(filename.lower().endswith(ext) for ext in DANGEROUS_EXTENSIONS) *)
IsDangerous(filename) ==
    \E ext \in Range(DANGEROUS_EXTENSIONS) : EndsWith(Lower(filename), ext)

(* the condition under which log_alert emits logger.error after the post:  *)
(* the except branch, or response.status_code != 200                       *)
ReportsErrorFrom400(r) == r.kind = "exception" \/ r.status >= 400
ReportsError(r) == r.kind = "exception" \/ r.status # 200

---------------------------------------------------------------------------
(* results = service.users().messages().list(...).execute() *)
ListMessages ==
    /\ pc = "start"
    /\ \E ms \in Listings : messages' = ms
    /\ listing' = "ok"
    /\ i' = 1
    /\ pc' = "loop"
    /\ UNCHANGED <<config, locals, alert, ret, response, sinks>>

(* get_service() or the list call raises (or sys.exit(1)): nothing below   *)
(* line 165 runs and the exception leaves analyze_emails                   *)
ListFailsSwallowed ==
    /\ pc = "start"
    /\ listing' = "failed"
    /\ pc' = "done"
    /\ UNCHANGED <<config, messages, i, locals, alert, ret, response, sinks>>

ListFails ==
    /\ pc = "start"
    /\ listing' = "failed"
    /\ pc' = "fatal"
    /\ UNCHANGED <<config, messages, i, locals, alert, ret, response, sinks>>

(* the for loop is exhausted: analyze_emails returns *)
LoopExit ==
    /\ pc = "loop"
    /\ i > Len(messages)
    /\ pc' = "done"
    /\ UNCHANGED <<config, listing, messages, i, locals, alert, ret,
                   response, sinks>>

(* msg_data = service.users().messages().get(id=msg['id']).execute() *)
GetMessage ==
    /\ pc = "loop"
    /\ i <= Len(messages)
    /\ msg_data' = Mailbox(MsgAt(messages, i).id)
    /\ pc' = "extract"
    /\ UNCHANGED <<config, listing, messages, i, subject, sender, snippet,
                   k, parts, p, alert, ret, response, sinks>>

(* the get call raises (HttpError, network): nothing catches it *)
GetFails ==
    /\ pc = "loop"
    /\ i <= Len(messages)
    /\ pc' = "crashed"
    /\ UNCHANGED <<config, listing, messages, i, locals, alert, ret,
                   response, sinks>>

(* headers = msg_data['payload']['headers'] raises KeyError *)
Malformed ==
    /\ pc = "extract"
    /\ ~HasHeaders(msg_data)
    /\ pc' = "crashed"
    /\ UNCHANGED <<config, listing, messages, i, locals, alert, ret,
                   response, sinks>>

(* lines 171-176: headers, subject, sender, snippet *)
ExtractFields ==
    /\ pc = "extract"
    /\ HasHeaders(msg_data)
    /\ subject' = HeaderValue(msg_data.payload.headers, "Subject", SinAsunto)
    /\ sender' = HeaderValue(msg_data.payload.headers, "From", Desconocido)
    /\ snippet' = Lower(Get(msg_data, "snippet", << >>))
    /\ pc' = "whitelist"
    /\ UNCHANGED <<config, listing, messages, i, msg_data, k, parts, p,
                   alert, ret, response, sinks>>

(* if any(domain in sender ...): continue *)
SkipWhitelisted ==
    /\ pc = "whitelist"
    /\ Whitelisted(sender)
    /\ i' = i + 1
    /\ pc' = "loop"
    /\ UNCHANGED <<config, listing, messages, locals, alert, ret, response,
                   sinks>>

StartKeywords ==
    /\ pc = "whitelist"
    /\ ~Whitelisted(sender)
    /\ k' = 1
    /\ pc' = "keywords"
    /\ UNCHANGED <<config, listing, messages, i, msg_data, subject, sender,
                   snippet, parts, p, alert, ret, response, sinks>>

(* for word in KEYWORDS: a hit calls log_alert *)
KeywordHit ==
    /\ pc = "keywords"
    /\ k <= Len(KEYWORDS)
    /\ KeywordMatches(KEYWORDS[k])
    /\ alert' = [subject |-> subject, sender |-> sender,
                 reason |-> PalabraDetectada \o KEYWORDS[k],
                 id |-> MsgAt(messages, i).id, phase |-> 1, pos |-> k]
    /\ ret' = "keywords"
    /\ k' = k + 1
    /\ pc' = "log_local"
    /\ UNCHANGED <<config, listing, messages, i, msg_data, subject, sender,
                   snippet, parts, p, response, sinks>>

KeywordMiss ==
    /\ pc = "keywords"
    /\ k <= Len(KEYWORDS)
    /\ ~KeywordMatches(KEYWORDS[k])
    /\ k' = k + 1
    /\ UNCHANGED <<config, pc, listing, messages, i, msg_data, subject,
                   sender, snippet, parts, p, alert, ret, response, sinks>>

(* parts = msg_data['payload'].get('parts', []) *)
EndKeywords ==
    /\ pc = "keywords"
    /\ k > Len(KEYWORDS)
    /\ parts' = Get(msg_data.payload, "parts", << >>)
    /\ p' = 1
    /\ pc' = "parts"
    /\ UNCHANGED <<config, listing, messages, i, msg_data, subject, sender,
                   snippet, k, alert, ret, response, sinks>>

(* for part in parts: filename = part.get('filename', '') *)
PartHit ==
    /\ pc = "parts"
    /\ p <= Len(parts)
    /\ IsDangerous(Get(parts[p], "filename", << >>))
    /\ alert' = [subject |-> subject, sender |-> sender,
                 reason |-> AdjuntoPeligroso \o Get(parts[p], "filename", << >>),
                 id |-> MsgAt(messages, i).id, phase |-> 2, pos |-> p]
    /\ ret' = "parts"
    /\ p' = p + 1
    /\ pc' = "log_local"
    /\ UNCHANGED <<config, listing, messages, i, msg_data, subject, sender,
                   snippet, k, parts, response, sinks>>

PartMiss ==
    /\ pc = "parts"
    /\ p <= Len(parts)
    /\ ~IsDangerous(Get(parts[p], "filename", << >>))
    /\ p' = p + 1
    /\ UNCHANGED <<config, pc, listing, messages, i, msg_data, subject,
                   sender, snippet, k, parts, alert, ret, response, sinks>>

(* end of the loop body: next msg *)
EndParts ==
    /\ pc = "parts"
    /\ p > Len(parts)
    /\ i' = i + 1
    /\ pc' = "loop"
    /\ UNCHANGED <<config, listing, messages, locals, alert, ret, response,
                   sinks>>

---------------------------------------------------------------------------
(* log_alert, line 131: logger.warning(log_local) *)
LogLocalSkipped ==
    /\ pc = "log_local"
    /\ pc' = "webhook"
    /\ UNCHANGED <<config, listing, messages, i, locals, alert, ret,
                   response, sinks>>

LogLocal ==
    /\ pc = "log_local"
    /\ alertas' = Append(alertas, alert)
    /\ pc' = "webhook"
    /\ UNCHANGED <<config, listing, messages, i, locals, alert, ret,
                   response, posted, errors>>

(* lines 134-141: requests.post(WEBHOOK_URL, json=mensaje_slack, ...) *)
PostWebhook ==
    /\ pc = "webhook"
    /\ Truthy(WEBHOOK_URL)
    /\ posted' = Append(posted, alert)
    /\ \E r \in Responses : response' = r
    /\ pc' = "response"
    /\ UNCHANGED <<config, listing, messages, i, locals, alert, ret,
                   alertas, errors>>

(* lines 147-148: no webhook, logger.info and return *)
NoWebhook ==
    /\ pc = "webhook"
    /\ ~Truthy(WEBHOOK_URL)
    /\ alert' = NoCall
    /\ pc' = ret
    /\ UNCHANGED <<config, listing, messages, i, locals, ret, response,
                   sinks>>

(* lines 142-146: logger.error on a status other than 200 or on an         *)
(* exception, then return to the caller's loop                             *)
HandleResponseRaising ==
    /\ pc = "response"
    /\ errors' = errors + (IF ReportsError(response) THEN 1 ELSE 0)
    /\ pc' = IF ReportsError(response) THEN "crashed" ELSE ret
    /\ response' = NoResponse
    /\ alert' = NoCall
    /\ UNCHANGED <<config, listing, messages, i, locals, ret, alertas,
                   posted>>

HandleResponse ==
    /\ pc = "response"
    /\ errors' = errors + (IF ReportsError(response) THEN 1 ELSE 0)
    /\ response' = NoResponse
    /\ alert' = NoCall
    /\ pc' = ret
    /\ UNCHANGED <<config, listing, messages, i, locals, ret, alertas,
                   posted>>

(* KeyboardInterrupt (SIGINT) delivered while analyze_emails runs: the     *)
(* program installs no handler and `except Exception` does not catch it,   *)
(* so the run stops wherever it is.                                        *)
Running ==
    pc \in {"start", "loop", "extract", "whitelist", "keywords", "parts",
            "log_local", "webhook", "response"}

Interrupt ==
    /\ Running
    /\ pc' = "interrupted"
    /\ UNCHANGED <<config, listing, messages, i, locals, alert, ret,
                   response, sinks>>

---------------------------------------------------------------------------
Next ==
    \/ ListMessages
    \/ ListFails
    \/ LoopExit
    \/ GetMessage
    \/ GetFails
    \/ Malformed
    \/ ExtractFields
    \/ SkipWhitelisted
    \/ StartKeywords
    \/ KeywordHit
    \/ KeywordMiss
    \/ EndKeywords
    \/ PartHit
    \/ PartMiss
    \/ EndParts
    \/ LogLocal
    \/ PostWebhook
    \/ NoWebhook
    \/ HandleResponse

Spec == Init /\ [][Next]_vars

(* the same run, with the caller able to interrupt it *)
NextCancel == Next \/ Interrupt

SpecCancel == Init /\ [][NextCancel]_vars

---------------------------------------------------------------------------
(* Vocabulary of the properties                                            *)

(* s contains sub, ignoring case on both sides *)
ContainsIgnoringCase(s, sub) == Contains(Lower(s), Lower(sub))

(* s ends with suf, ignoring case on both sides *)
EndsWithIgnoringCase(s, suf) == EndsWith(Lower(s), Lower(suf))

(* the From value contains some configured whitelist domain *)
HasWhitelistDomain(s) ==
    \E j \in DOMAIN WHITELIST_DOMAINS : Contains(s, WHITELIST_DOMAINS[j])

Entries(log) == {log[j] : j \in DOMAIN log}
CurrentId == messages[i].id
Position(id) == CHOOSE j \in DOMAIN messages : messages[j].id = id

(* a was raised before b: earlier message, or same message and keyword     *)
(* alerts (in KEYWORDS order) before attachment alerts (in parts order)    *)
Before(a, b) ==
    \/ Position(a.id) < Position(b.id)
    \/ /\ a.id = b.id
       /\ \/ a.phase < b.phase
          \/ a.phase = b.phase /\ a.pos < b.pos

Ordered(log) ==
    \A a, b \in DOMAIN log : a < b => Before(log[a], log[b])

IsPrefix(s, t) == Len(s) <= Len(t) /\ s = SubSeq(t, 1, Len(s))

(* The alert reasons of one message, computed from its detail in one go:   *)
(* nothing when whitelisted, else the matching keywords in KEYWORDS order  *)
(* followed by the dangerous filenames in parts order.                     *)
Filenames(d) ==
    LET ps == Get(d.payload, "parts", << >>)
    IN  [q \in DOMAIN ps |-> Get(ps[q], "filename", << >>)]

MessageReasons(d) ==
    LET subj == HeaderValue(d.payload.headers, "Subject", SinAsunto)
        from == HeaderValue(d.payload.headers, "From", Desconocido)
        snip == Lower(Get(d, "snippet", << >>))
        hitW(w) == Contains(snip, w) \/ Contains(Lower(subj), w)
        hitF(f) == \E e \in Range(DANGEROUS_EXTENSIONS) : EndsWith(Lower(f), e)
        ws == SelectSeq(KEYWORDS, hitW)
        fs == SelectSeq(Filenames(d), hitF)
    IN  IF \E w \in Range(WHITELIST_DOMAINS) : Contains(from, w)
        THEN << >>
        ELSE [j \in DOMAIN ws |-> PalabraDetectada \o ws[j]]
             \o [j \in DOMAIN fs |-> AdjuntoPeligroso \o fs[j]]

RECURSIVE RunReasons(_)
RunReasons(n) ==
    IF n = 0 THEN << >>
    ELSE RunReasons(n - 1) \o MessageReasons(Mailbox(messages[n].id))

Reasons(log) == [j \in DOMAIN log |-> log[j].reason]

---------------------------------------------------------------------------
(* C1: no alert is ever raised, written to the logger or posted to the     *)
(* webhook for a message whose From value contains a configured whitelist  *)
(* domain, whatever its subject, snippet and attachments.                  *)
C1_WhitelistedSenderSilent ==
    /\ \A e \in Entries(alertas) \cup Entries(posted) :
         ~HasWhitelistDomain(e.sender)
    /\ alert # NoCall => ~HasWhitelistDomain(alert.sender)

(* a whitelisted message carrying a keyword and a dangerous attachment has *)
(* been processed and the loop has moved on                                *)
C1_Witness ==
    /\ pc = "loop"
    /\ i = 2
    /\ HasWhitelistDomain(sender)
    /\ \E w \in Range(KEYWORDS) : ContainsIgnoringCase(subject, w)
    /\ \E q \in DOMAIN Filenames(msg_data) :
         \E e \in Range(DANGEROUS_EXTENSIONS) :
            EndsWithIgnoringCase(Filenames(msg_data)[q], e)

(* C2: when the keyword scan of a non-whitelisted message is over, every   *)
(* configured keyword has exactly one "Palabra detectada: <keyword>" alert *)
(* if it occurs, ignoring case on both sides, in the subject or snippet,   *)
(* and none otherwise.                                                     *)
C2_OneAlertPerKeywordPresent ==
    (pc = "keywords" /\ k > Len(KEYWORDS) /\ ~HasWhitelistDomain(sender)) =>
        \A w \in Range(KEYWORDS) :
            Cardinality({j \in DOMAIN alertas :
                           /\ alertas[j].id = CurrentId
                           /\ alertas[j].reason = PalabraDetectada \o w})
              = IF \/ ContainsIgnoringCase(subject, w)
                   \/ ContainsIgnoringCase(Get(msg_data, "snippet", << >>), w)
                THEN 1 ELSE 0

(* C3: when the attachment scan of a non-whitelisted message is over,      *)
(* every part has exactly one "Adjunto peligroso: <filename>" alert if its *)
(* filename ends, ignoring case on both sides, with a configured extension *)
(* and none otherwise.                                                     *)
C3_OneAlertPerDangerousFile ==
    (pc = "parts" /\ p > Len(parts) /\ ~HasWhitelistDomain(sender)) =>
        \A q \in DOMAIN parts :
            LET f == Get(parts[q], "filename", << >>)
            IN  Cardinality({j \in DOMAIN alertas :
                               /\ alertas[j].id = CurrentId
                               /\ alertas[j].phase = 2
                               /\ alertas[j].pos = q
                               /\ alertas[j].reason = AdjuntoPeligroso \o f})
                  = IF \E e \in Range(DANGEROUS_EXTENSIONS) :
                          EndsWithIgnoringCase(f, e)
                    THEN 1 ELSE 0

(* C4: when the webhook post of an alert has failed (exception, or a       *)
(* status outside 2xx), the logger already holds that alert, and the next  *)
(* step returns to the loop the alert was raised in, at the same message,  *)
(* with nothing lost: the run goes on.                                     *)
C4_SinkIsolation ==
    [][(/\ pc = "response"
        /\ (response.kind = "exception" \/ response.status \notin 200..299))
       => /\ alertas # << >>
          /\ alertas[Len(alertas)] = alert
          /\ pc' \in {"keywords", "parts"}
          /\ pc' = ret
          /\ <<messages, i, k, p, alertas, posted>>'
               = <<messages, i, k, p, alertas, posted>>]_vars

(* a run of two messages reached the end of the list although the post of  *)
(* every one of its alerts failed, the first message's included            *)
C4_Witness ==
    /\ pc = "done"
    /\ Len(messages) = 2
    /\ errors = Len(alertas)
    /\ \E a, b \in Entries(alertas) :
          a.id = messages[1].id /\ b.id = messages[2].id

(* C5: once the listing is obtained, a run that has stopped has reached    *)
(* the end of the list: no single message's failure aborts it.             *)
C5_RunReachesEndOfList ==
    (listing = "ok" /\ pc \in {"done", "crashed"}) => i > Len(messages)

(* C6: when the initial listing fails, the run ends in the fatal state:    *)
(* it does not complete normally, no message is fetched or processed, and  *)
(* nothing reaches the logger or the webhook.                              *)
C6_ListingFailureIsFatal ==
    listing = "failed" =>
        /\ pc = "fatal"
        /\ messages = << >>
        /\ i = 0
        /\ msg_data = EmptyDict
        /\ alert = NoCall
        /\ alertas = << >>
        /\ posted = << >>
        /\ errors = 0

C6_Witness == listing = "failed" /\ pc = "fatal"

(* C7 as stated: the post is reported as a failure exactly when it raised  *)
(* or its status is outside 2xx.                                           *)
C7_ReportedIffNot2xx ==
    [][pc = "response" =>
         ((errors' = errors + 1) <=>
            (response.kind = "exception" \/ response.status \notin 200..299))
      ]_vars

(* C7 amended: the post is reported as a failure (one ERROR record)        *)
(* exactly when it raised or its status is not 200; otherwise nothing is   *)
(* reported; either way the call returns to the loop it came from.         *)
C7_ReportedIffNot200 ==
    [][pc = "response" =>
         /\ (errors' = errors + 1) <=>
               (response.kind = "exception" \/ response.status # 200)
         /\ (errors' = errors) <=>
               (response.kind = "http" /\ response.status = 200)
         /\ pc' = ret
         /\ pc' \in {"keywords", "parts"}
      ]_vars

(* a 2xx answer other than 200 has been received for a posted alert *)
C7_Witness ==
    /\ pc = "response"
    /\ response.kind = "http"
    /\ response.status \in 201..299
    /\ posted # << >>
    /\ posted[Len(posted)] = alert

(* C8: a run stopped by the caller has no log_alert call in progress, and  *)
(* with a webhook configured every alert written to the logger has been    *)
(* posted too.                                                             *)
C8_CancelDrainsInFlightAlerts ==
    pc = "interrupted" =>
        /\ alert = NoCall
        /\ Truthy(WEBHOOK_URL) => posted = alertas

C10_LocalOnceThenRemoteOnce ==
    /\ Entries(posted) \subseteq Entries(alertas)
    /\ \A a, b \in DOMAIN alertas : alertas[a] = alertas[b] => a = b
    /\ \A a, b \in DOMAIN posted : posted[a] = posted[b] => a = b
    /\ pc = "log_local" => alert \notin Entries(alertas)
    /\ pc \in {"webhook", "response"} =>
          alertas # << >> /\ alertas[Len(alertas)] = alert
    /\ pc = "webhook" => alert \notin Entries(posted)
    /\ pc = "response" => posted # << >> /\ posted[Len(posted)] = alert
    /\ IF Truthy(WEBHOOK_URL)
       THEN pc \notin {"log_local", "webhook"} => posted = alertas
       ELSE posted = << >>

(* a completed run with a webhook in which several alerts were posted *)
C10_Witness ==
    /\ pc = "done"
    /\ Truthy(WEBHOOK_URL)
    /\ Len(posted) >= 2
    /\ posted = alertas

====
